---- MODULE Spec2Model ----
(***************************************************************************)
(* Model of the TALD UNIA DSP kernel shell:                                *)
(*   src/src/macos/TALDUnia/Audio/DSP/DSPKernel.hpp  (tald::dsp::DSPKernel,*)
(*       alignedMalloc, alignedFree)                                       *)
(*   src/src/ios/TALDUnia/Audio/DSP/DSPKernel.hpp    (::DSPKernel)         *)
(*                                                                         *)
(* A behaviour is one of three scenarios, chosen by its first step:        *)
(*   NextAlloc  calls of alignedMalloc / alignedFree on a small heap       *)
(*   NextMac    one macOS kernel: constructor, process, destructor         *)
(*   NextIOS    one iOS kernel: constructor, initialize, process,          *)
(*              setBypassed, cleanup, destructor                           *)
(***************************************************************************)
EXTENDS Integers, Sequences, FiniteSets, TLC

VARIABLES
    heap,       \* the allocator's blocks: address -> [kind, size, zero]
    fftLive,    \* TRUE while an FFT setup created by vDSP_create_fftsetup exists
    am,         \* the last alignedMalloc / alignedFree call and its result
    mac,        \* the fields of the macOS DSPKernel, and how its constructor ended
    ios,        \* the fields of the iOS DSPKernel
    rt,         \* the real-time thread: its position in process()
    ghost       \* bookkeeping of releases, allocator calls and flag accesses

vars == <<heap, fftLive, am, mac, ios, rt, ghost>>

(***************************************************************************)
(* Program constants (macOS header lines 10-16, iOS header lines 21-33).   *)
(***************************************************************************)
MAX_CHANNELS == 8
DSP_ALIGNMENT == 16
CACHE_LINE_SIZE == 64
MAX_BUFFER_SIZE == 8192
MIN_SAMPLE_RATE == 44100
MAX_SAMPLE_RATE == 384000
kMaxFramesPerSlice == 4096
kMaxChannels == 8
kSIMDAlignmentBytes == 16
kDefaultSampleRate == 48000
kMinBufferSize == 64

\* sizeof(float), as used in the size arguments of lines 93-94
SIZEOF_FLOAT == 4
\* the alignment operator new guarantees (std::vector<float>'s allocator and
\* std::make_unique<float[]>, lines 103 and 109): __STDCPP_DEFAULT_NEW_ALIGNMENT__
NEW_ALIGNMENT == 16

(***************************************************************************)
(* Bounds of the model.                                                    *)
(***************************************************************************)
\* the heap has HeapSlots block addresses: NEW_ALIGNMENT, 2*NEW_ALIGNMENT, ...
HeapSlots == 8
\* size_t is modelled SizeBits wide (alignment - 1 wraps modulo 2^SizeBits)
SizeBits == 10

NULL == 0
SizeMod == 2 ^ SizeBits
Addr == { NEW_ALIGNMENT * i : i \in 1..HeapSlots }

(***************************************************************************)
(* double: a value is a number of Hz or NaN. Every ordered comparison with *)
(* NaN is false (IEEE 754), which is what `<` and `>` of lines 84 compute. *)
(***************************************************************************)
Dbl(v) == [nan |-> FALSE, v |-> v]
NaN == [nan |-> TRUE, v |-> 0]
DLess(a, b) == ~a.nan /\ ~b.nan /\ a.v < b.v
DGreater(a, b) == ~a.nan /\ ~b.nan /\ a.v > b.v

\* the sample rates and channel counts a caller passes
SampleRates == { Dbl(8000), Dbl(MIN_SAMPLE_RATE - 1), Dbl(MIN_SAMPLE_RATE), Dbl(48000),
                 Dbl(MAX_SAMPLE_RATE), Dbl(MAX_SAMPLE_RATE + 1), NaN }
ChannelCounts == { -1, 0, 1, 2, MAX_CHANNELS, MAX_CHANNELS + 1 }

(***************************************************************************)
(* size_t arithmetic                                                       *)
(***************************************************************************)
SubWrap(a, b) == (a - b + SizeMod) % SizeMod

RECURSIVE BitAnd(_, _)
BitAnd(a, b) ==
    IF a = 0 \/ b = 0 THEN 0
    ELSE (a % 2) * (b % 2) + 2 * BitAnd(a \div 2, b \div 2)

\* what "power of two" means (the documented requirement on alignment, line 24)
RECURSIVE IsPow2(_)
IsPow2(n) == IF n <= 0 THEN FALSE ELSE IF n = 1 THEN TRUE
             ELSE n % 2 = 0 /\ IsPow2(n \div 2)

(***************************************************************************)
(* The heap. A block is free, or live and obtained from posix_memalign     *)
(* ("malloc") or from operator new ("new"). zero: all its bytes are zero.  *)
(***************************************************************************)
FreeBlock == [kind |-> "free", size |-> 0, zero |-> FALSE]
EmptyHeap == [a \in Addr |-> FreeBlock]
Live(h) == { a \in Addr : h[a].kind # "free" }

\* posix_memalign(&ptr, alignment, size): EINVAL for a bad alignment, ENOMEM,
\* or a free block at any address that is a multiple of alignment, its
\* contents unspecified. Outcomes: [rc, ptr, heap].
posix_memalign(h, alignment, size) ==
    IF ~IsPow2(alignment) \/ alignment % 8 # 0
    THEN { [rc |-> "EINVAL", ptr |-> NULL, heap |-> h] }
    ELSE { [rc |-> "ENOMEM", ptr |-> NULL, heap |-> h] }
         \cup { [rc |-> "OK", ptr |-> a,
                 heap |-> [h EXCEPT ![a] = [kind |-> "malloc", size |-> size, zero |-> z]]]
                : a \in { x \in Addr : h[x].kind = "free" /\ x % alignment = 0 },
                  z \in BOOLEAN }

\* memset(ptr, 0, size)
memset0_skipped(h, ptr) == h

memset0(h, ptr) == [h EXCEPT ![ptr].zero = TRUE]

\* free(ptr) of a live block
free(h, ptr) == [h EXCEPT ![ptr] = FreeBlock]

(***************************************************************************)
(* alignedMalloc (macOS header lines 28-50), the __APPLE__ branch.         *)
(* Outcomes: [ptr, heap, calls], calls = calls of the underlying allocator.*)
(***************************************************************************)
\* lines 29-31: the power-of-two test
RejectsAlignment(alignment) == BitAnd(alignment, SubWrap(alignment, 1)) # 0

\* lines 33-35: the alignment handed to the allocator
RaisedAlignment(alignment) ==
    IF alignment < DSP_ALIGNMENT THEN DSP_ALIGNMENT ELSE alignment

alignedMalloc(h, size, alignment) ==
    IF RejectsAlignment(alignment)
    THEN { [ptr |-> NULL, heap |-> h, calls |-> 0] }
    ELSE { [ptr |-> r.ptr,
            heap |-> IF r.ptr # NULL THEN memset0(r.heap, r.ptr) ELSE r.heap,
            calls |-> 1]
           : r \in posix_memalign(h, RaisedAlignment(alignment), size) }

\* alignedFree (lines 56-60): free(ptr) unless ptr is null
alignedFree(h, ptr) == IF ptr # NULL THEN free(h, ptr) ELSE h

\* isBufferAligned (lines 162-164)
isBufferAligned(ptr) == ptr % DSP_ALIGNMENT = 0

(***************************************************************************)
(* Initial values of the variables.                                        *)
(***************************************************************************)
NoCall == [op |-> "none", size |-> 0, alignment |-> 0, ptr |-> NULL, calls |-> 0]

(***************************************************************************)
(* One scenario per behaviour: the parts of the state of the other two     *)
(* stay as they are initially.                                             *)
(***************************************************************************)
ScenarioAlloc == mac.state = "None" /\ ios.state = "None"
ScenarioMac == am.op = "none" /\ ios.state = "None"
ScenarioIOS == am.op = "none" /\ mac.state = "None"

(***************************************************************************)
(* A caller of the buffer manager. It frees only blocks it holds (or       *)
(* null), as the contract of alignedFree requires.                         *)
(***************************************************************************)
\* live blocks the caller holds at once
MaxLive == 2
Sizes == { 32, 256 }
Alignments == { 0, 1, 2, 3, 8, 12, 16, 24, 32, 48, 64, 96, 128 }

CallAlignedMalloc(size, alignment) ==
    /\ ScenarioAlloc
    /\ Cardinality(Live(heap)) < MaxLive
    /\ \E r \in alignedMalloc(heap, size, alignment) :
          /\ heap' = r.heap
          /\ am' = [op |-> "alignedMalloc", size |-> size, alignment |-> alignment,
                    ptr |-> r.ptr, calls |-> r.calls]
    /\ UNCHANGED <<fftLive, mac, ios, rt, ghost>>

CallAlignedFree(ptr) ==
    /\ ScenarioAlloc
    /\ heap' = alignedFree(heap, ptr)
    /\ am' = [op |-> "alignedFree", size |-> 0, alignment |-> 0, ptr |-> ptr, calls |-> 0]
    /\ UNCHANGED <<fftLive, mac, ios, rt, ghost>>

(***************************************************************************)
(* operator new as std::vector<float>::resize (line 103) and               *)
(* std::make_unique<float[]> (line 109) use it: std::bad_alloc, or a free  *)
(* block at any address that is a multiple of NEW_ALIGNMENT, whose floats  *)
(* are value-initialised (zero). Outcomes: [ok, ptr, heap].                *)
(***************************************************************************)
operator_new(h, size) ==
    { [ok |-> FALSE, ptr |-> NULL, heap |-> h] }
    \cup { [ok |-> TRUE, ptr |-> a,
            heap |-> [h EXCEPT ![a] = [kind |-> "new", size |-> size, zero |-> TRUE]]]
           : a \in { x \in Addr : h[x].kind = "free" /\ x % NEW_ALIGNMENT = 0 } }

\* operator delete of the storage of a vector or unique_ptr (null: nothing)
operator_delete(h, ptr) == IF ptr # NULL THEN free(h, ptr) ELSE h

\* vDSP_create_fftsetup: a setup (handle 1), or NULL when it cannot be created
vDSP_create_fftsetup == { NULL, 1 }

\* std::bit_width(n): the number of bits needed to represent n
RECURSIVE bit_width(_)
bit_width(n) == IF n = 0 THEN 0 ELSE 1 + bit_width(n \div 2)

(***************************************************************************)
(* The macOS kernel (tald::dsp::DSPKernel).                                *)
(***************************************************************************)
\* Bookkeeping of the kernel's resources: "none" (not obtained), "held",
\* "released" (released once), "twice" (released again while not held).
Resources == { "input", "output", "processing", "temp", "fft", "simd" }
NoneHeld == [r \in Resources |-> "none"]
Acquire(res, r, cond) == IF cond THEN [res EXCEPT ![r] = "held"] ELSE res
Release(res, r, cond) ==
    IF cond THEN [res EXCEPT ![r] = IF @ = "held" THEN "released" ELSE "twice"] ELSE res

\* the object before its constructor has run
MacNone ==
    [state |-> "None", error |-> "none", inputBuffer |-> NULL, outputBuffer |-> NULL,
     bufferSize |-> 0, numChannels |-> 0, sampleRate |-> Dbl(0),
     processingBuffer |-> NULL, isProcessing |-> FALSE, bypass |-> FALSE,
     fftSetup |-> NULL, tempBuffer |-> NULL]

\* the member initialisers of lines 75-82; processingBuffer and tempBuffer are
\* default-constructed (no storage)
MacMembers_flagSet(sampleRate, channels) ==
    [MacNone EXCEPT !.state = "Constructing", !.numChannels = channels,
                    !.sampleRate = sampleRate, !.isProcessing = TRUE]

MacMembers(sampleRate, channels) ==
    [MacNone EXCEPT !.state = "Constructing", !.numChannels = channels,
                    !.sampleRate = sampleRate]

\* the size argument of lines 93-94
BufferBytes(channels) == MAX_BUFFER_SIZE * channels * SIZEOF_FLOAT

\* An exception leaves the constructor body: the destructors of the members run
\* (std::vector, std::unique_ptr), ~DSPKernel does not.
MacThrow(k, h, fft, calls, res, err) ==
    [mac |-> [k EXCEPT !.state = "Failed", !.error = err],
     heap |-> operator_delete(operator_delete(h, k.tempBuffer), k.processingBuffer),
     fftLive |-> fft,
     calls |-> calls,
     res |-> Release(Release(res, "temp", k.tempBuffer # NULL),
                     "processing", k.processingBuffer # NULL),
     log2n |-> 0]

\* lines 105-109, after processingBuffer.resize succeeded
MacCtorTail(k, h, calls, res) ==
    LET log2n == bit_width(MAX_BUFFER_SIZE) IN
    UNION { { IF t.ok
              THEN [mac |-> [k EXCEPT !.state = "Initialized", !.fftSetup = f,
                                      !.tempBuffer = t.ptr],
                    heap |-> t.heap, fftLive |-> (f # NULL), calls |-> calls + 2,
                    res |-> Acquire(Acquire(res, "fft", f # NULL), "temp", TRUE),
                    log2n |-> log2n]
              ELSE [ MacThrow([k EXCEPT !.fftSetup = f], t.heap, f # NULL, calls + 2,
                              Acquire(res, "fft", f # NULL), "bad_alloc")
                     EXCEPT !.log2n = log2n ]
              : t \in operator_new(h, BufferBytes(k.numChannels)) }
            : f \in vDSP_create_fftsetup }

\* lines 96-103, with the results r1, r2 of the two alignedMalloc calls
MacCtorBuffers(k0, r1, r2) ==
    LET k == [k0 EXCEPT !.inputBuffer = r1.ptr, !.outputBuffer = r2.ptr]
        calls == r1.calls + r2.calls
        res == Acquire(Acquire(NoneHeld, "input", r1.ptr # NULL), "output", r2.ptr # NULL)
    IN IF r1.ptr = NULL \/ r2.ptr = NULL
       THEN { MacThrow(k, alignedFree(alignedFree(r2.heap, r1.ptr), r2.ptr), FALSE, calls,
                       Release(Release(res, "input", r1.ptr # NULL),
                               "output", r2.ptr # NULL),
                       "runtime_error") }
       ELSE UNION { IF p.ok
                    THEN MacCtorTail([k EXCEPT !.processingBuffer = p.ptr], p.heap,
                                     calls + 1, Acquire(res, "processing", TRUE))
                    ELSE { MacThrow(k, p.heap, FALSE, calls + 1, res, "bad_alloc") }
                    : p \in operator_new(r2.heap, BufferBytes(k.numChannels)) }

\* DSPKernel::DSPKernel(double sampleRate, int channels), lines 74-110.
\* Outcomes: [mac, heap, fftLive, calls, res, log2n].
MacCtor(h, sampleRate, channels) ==
    LET k0 == MacMembers(sampleRate, channels) IN
    IF DLess(sampleRate, Dbl(MIN_SAMPLE_RATE)) \/ DGreater(sampleRate, Dbl(MAX_SAMPLE_RATE))
    THEN { MacThrow(k0, h, FALSE, 0, NoneHeld, "invalid_argument") }
    ELSE IF channels <= 0 \/ channels > MAX_CHANNELS
    THEN { MacThrow(k0, h, FALSE, 0, NoneHeld, "invalid_argument") }
    ELSE UNION { UNION { MacCtorBuffers(k0, r1, r2)
                         : r2 \in alignedMalloc(r1.heap, BufferBytes(channels),
                                                CACHE_LINE_SIZE) }
                 : r1 \in alignedMalloc(h, BufferBytes(channels), CACHE_LINE_SIZE) }

\* DSPKernel::~DSPKernel, lines 112-118, followed by the destructors of the
\* members tempBuffer and processingBuffer. Outcome: [heap, fftLive, res].
MacDtor(k, h, fft, res) ==
    [heap |-> operator_delete(
                  operator_delete(
                      alignedFree(alignedFree(h, k.inputBuffer), k.outputBuffer),
                      k.tempBuffer),
                  k.processingBuffer),
     fftLive |-> IF k.fftSetup # NULL THEN FALSE ELSE fft,
     res |-> Release(Release(Release(Release(Release(res, "fft", k.fftSetup # NULL),
                                             "input", k.inputBuffer # NULL),
                                     "output", k.outputBuffer # NULL),
                             "temp", k.tempBuffer # NULL),
                     "processing", k.processingBuffer # NULL)]

\* How each variant declares the two flags shared between the threads:
\* macOS line 151 `bool isProcessing`, line 152 `std::atomic<bool> bypass`;
\* iOS line 122 `std::atomic<bool> isBypassed`, line 125 `std::atomic<bool> isProcessing`.
FlagIsAtomic(variant, flag) ==
    CASE variant = "macos" /\ flag = "isProcessing" -> FALSE
      [] variant = "macos" /\ flag = "bypass" -> TRUE
      [] variant = "ios" /\ flag = "isProcessing" -> TRUE
      [] variant = "ios" /\ flag = "bypass" -> TRUE

\* an access of a thread to a shared flag, recorded when it is not atomic
Access(log, variant, flag, thread) ==
    IF FlagIsAtomic(variant, flag) THEN log
    ELSE log \cup { [variant |-> variant, flag |-> flag, thread |-> thread] }

(***************************************************************************)
(* The iOS kernel (::DSPKernel). initialize, process, reset and cleanup    *)
(* are pure virtual in the header; the concrete variant is modelled from   *)
(* the kernel contract (spec sections 4.2 and 5).                          *)
(***************************************************************************)
\* DSPKernel::DSPKernel(), lines 52-62
IosCtor ==
    [state |-> "Alive", processingBuffer |-> NULL, maxFrames |-> 0,
     isInitialized |-> FALSE, sampleRate |-> Dbl(kDefaultSampleRate), channelCount |-> 0,
     isBypassed |-> FALSE, isProcessing |-> FALSE, simdAlignedBuffer |-> NULL,
     bufferCapacity |-> 0]

IosNone == [IosCtor EXCEPT !.state = "None", !.sampleRate = Dbl(0)]

\* DSPKernel::setBypassed, lines 101-103: std::atomic_store(&isBypassed, shouldBypass)
setBypassed_lost(k, shouldBypass) == k

setBypassed_wrongFlag(k, shouldBypass) == [k EXCEPT !.isProcessing = shouldBypass]

setBypassed(k, shouldBypass) == [k EXCEPT !.isBypassed = shouldBypass]

\* cleanup() of the concrete variant: releases what is held, once, and forgets it
IosCleanupImpl(k, h, res) ==
    [ios |-> [k EXCEPT !.processingBuffer = NULL, !.simdAlignedBuffer = NULL,
                       !.isInitialized = FALSE, !.bufferCapacity = 0, !.maxFrames = 0],
     heap |-> alignedFree(alignedFree(h, k.processingBuffer), k.simdAlignedBuffer),
     res |-> Release(Release(res, "processing", k.processingBuffer # NULL),
                     "simd", k.simdAlignedBuffer # NULL)]

\* initialize(sampleRate, channelCount) of the concrete variant. Outcomes:
\* [ios, heap, calls, ok]. Called on a kernel that holds no buffers.
IosInitializeImpl(k, h, sampleRate, channelCount) ==
    LET bytes == kMaxFramesPerSlice * channelCount * SIZEOF_FLOAT
        inRange == /\ ~sampleRate.nan
                   /\ sampleRate.v >= MIN_SAMPLE_RATE
                   /\ sampleRate.v <= MAX_SAMPLE_RATE
                   /\ channelCount >= 1
                   /\ channelCount <= kMaxChannels
    IN IF ~inRange THEN { [ios |-> k, heap |-> h, calls |-> 0, ok |-> FALSE] }
       ELSE UNION { { IF r1.ptr = NULL \/ r2.ptr = NULL
                      THEN [ios |-> k,
                            heap |-> alignedFree(alignedFree(r2.heap, r1.ptr), r2.ptr),
                            calls |-> r1.calls + r2.calls, ok |-> FALSE]
                      ELSE [ios |-> [k EXCEPT !.processingBuffer = r1.ptr,
                                              !.simdAlignedBuffer = r2.ptr,
                                              !.maxFrames = kMaxFramesPerSlice,
                                              !.bufferCapacity =
                                                  kMaxFramesPerSlice * channelCount,
                                              !.sampleRate = sampleRate,
                                              !.channelCount = channelCount,
                                              !.isInitialized = TRUE],
                            heap |-> r2.heap, calls |-> r1.calls + r2.calls, ok |-> TRUE]
                      : r2 \in alignedMalloc(r1.heap, bytes, kSIMDAlignmentBytes) }
                    : r1 \in alignedMalloc(h, bytes, kSIMDAlignmentBytes) }

\* process(inBuffer, outBuffer, frameCount) of the concrete variant, once it has
\* read the bypass flag. Bypassed: the frameCount * channelCount samples of the
\* input are copied to the output and nothing else is done. Otherwise the
\* algorithm's transform runs in the pre-allocated buffers and writes the same
\* range of the output. Outcome: [out, heap]; out = [written, copied, transform]:
\* samples of outBuffer written (from index 0), samples copied from inBuffer,
\* whether the transform ran.
Dirty(h, p) == IF p # NULL /\ h[p].kind # "free" THEN [h EXCEPT ![p].zero = FALSE] ELSE h

NoOutput == [written |-> 0, copied |-> 0, transform |-> FALSE]

IosProcessImpl_framesOnly(k, h, bypassed, frameCount) ==
    [out |-> [written |-> frameCount, copied |-> IF bypassed THEN frameCount ELSE 0,
              transform |-> ~bypassed],
     heap |-> h]

IosProcessImpl(k, h, bypassed, frameCount) ==
    LET n == frameCount * k.channelCount IN
    IF bypassed
    THEN [out |-> [written |-> n, copied |-> n, transform |-> FALSE], heap |-> h]
    ELSE [out |-> [written |-> n, copied |-> 0, transform |-> TRUE],
          heap |-> Dirty(Dirty(h, k.processingBuffer), k.simdAlignedBuffer)]

\* reset() of the concrete variant: zeroes the processing buffers in place
Zeroed(h, p) == IF p # NULL /\ h[p].kind # "free" THEN memset0(h, p) ELSE h

IosResetImpl_clearsBypass(k, h) ==
    [ios |-> [k EXCEPT !.isBypassed = FALSE],
     heap |-> Zeroed(Zeroed(h, k.processingBuffer), k.simdAlignedBuffer)]

IosResetImpl(k, h) ==
    [ios |-> k, heap |-> Zeroed(Zeroed(h, k.processingBuffer), k.simdAlignedBuffer)]

\* DSPKernel::~DSPKernel, lines 67-69: `cleanup()` called from the destructor of
\* the class in which cleanup is pure virtual. The dynamic type is DSPKernel by
\* then, so the call never reaches the concrete variant's cleanup: it is undefined
\* behaviour, which a build turns into an abort ("pure virtual function called")
\* or into a call that does nothing.
IosDtorOutcomes == { "Aborted", "Destroyed" }

(***************************************************************************)
(* Ownership. Both headers delete the copy constructor and the copy        *)
(* assignment (macOS lines 121-122, iOS lines 133-136): a program that     *)
(* copies or assigns a kernel does not compile, so copying a kernel yields *)
(* no instance.                                                            *)
(***************************************************************************)
\* the instances a copy of kernel k brings into existence
CopyConstruct_memberwise(k) == { k }

CopyConstruct(k) == {}

\* the buffer addresses a kernel object holds
MacBufs(k) ==
    IF k.state = "Initialized"
    THEN { k.inputBuffer, k.outputBuffer, k.processingBuffer, k.tempBuffer } \ { NULL }
    ELSE {}

IosBufs(k) ==
    IF k.state = "Alive" THEN { k.processingBuffer, k.simdAlignedBuffer } \ { NULL } ELSE {}

\* every kernel instance of the state, with the buffers it holds
Instances ==
    { [id |-> "mac", bufs |-> MacBufs(mac)], [id |-> "ios", bufs |-> IosBufs(ios)] }
    \cup { [id |-> "copy of mac", bufs |-> MacBufs(c)] : c \in CopyConstruct(mac) }
    \cup { [id |-> "copy of ios", bufs |-> IosBufs(c)] : c \in CopyConstruct(ios) }

(***************************************************************************)
(* State, initial state.                                                   *)
(***************************************************************************)
\* rt.fresh: the bypass values a process call in flight may read: the one last
\* stored before it began and those stored since. rt.saw: the value it read.
\* rt.frames, rt.channels: frameCount of the call and the channel count it ran
\* with; rt.out: what it did to the output buffer.
RtIdle == [pc |-> "idle", fresh |-> {}, saw |-> FALSE, frames |-> 0, channels |-> 0,
           out |-> NoOutput]

\* the frame counts a host passes to process: within [kMinBufferSize, kMaxFramesPerSlice]
FrameCounts == { kMinBufferSize, kMaxFramesPerSlice }

\* ghost.calls: allocator calls of the last initialization; ghost.res: the
\* resources; ghost.log2n: the order given to vDSP_create_fftsetup;
\* ghost.nonAtomic: the non-atomic accesses of threads to the shared flags;
\* ghost.stored: the value of the last completed setBypassed (FALSE: none yet);
\* ghost.wasReset: the last operation on the buffers' contents was a reset()
\* that found a processing buffer not all zero.
GhostInit ==
    [calls |-> 0, res |-> NoneHeld, log2n |-> 0, nonAtomic |-> {}, stored |-> FALSE,
     wasReset |-> FALSE]

Init ==
    /\ heap = EmptyHeap
    /\ fftLive = FALSE
    /\ am = NoCall
    /\ mac = MacNone
    /\ ios = IosNone
    /\ rt = RtIdle
    /\ ghost = GhostInit

(***************************************************************************)
(* The macOS scenario: a host constructs one kernel, a real-time thread    *)
(* runs process on it, the control thread destroys it.                     *)
(***************************************************************************)
MacConstruct(sampleRate, channels) ==
    /\ ScenarioMac
    /\ mac.state = "None"
    /\ \E o \in MacCtor(heap, sampleRate, channels) :
          /\ mac' = o.mac
          /\ heap' = o.heap
          /\ fftLive' = o.fftLive
          /\ ghost' = [ghost EXCEPT !.calls = o.calls, !.res = o.res, !.log2n = o.log2n]
    /\ UNCHANGED <<am, ios, rt>>

\* process() of a concrete variant begins: it sets the processing-in-progress flag
MacProcessBegin ==
    /\ ScenarioMac
    /\ mac.state = "Initialized"
    /\ rt.pc = "idle"
    /\ mac' = [mac EXCEPT !.isProcessing = TRUE]
    /\ rt' = [rt EXCEPT !.pc = "begun"]
    /\ ghost' = [ghost EXCEPT !.nonAtomic = Access(@, "macos", "isProcessing", "realtime")]
    /\ UNCHANGED <<heap, fftLive, am, ios>>

\* ... and ends: it clears the flag
MacProcessEnd ==
    /\ ScenarioMac
    /\ mac.state \in { "Initialized", "Destroyed" }
    /\ rt.pc = "begun"
    /\ mac' = [mac EXCEPT !.isProcessing = FALSE]
    /\ rt' = [rt EXCEPT !.pc = "idle"]
    /\ ghost' = [ghost EXCEPT !.nonAtomic = Access(@, "macos", "isProcessing", "realtime")]
    /\ UNCHANGED <<heap, fftLive, am, ios>>

MacDestroy ==
    /\ ScenarioMac
    /\ mac.state = "Initialized"
    /\ LET o == MacDtor(mac, heap, fftLive, ghost.res) IN
          /\ heap' = o.heap
          /\ fftLive' = o.fftLive
          /\ ghost' = [ghost EXCEPT !.res = o.res]
    /\ mac' = [mac EXCEPT !.state = "Destroyed"]
    /\ UNCHANGED <<am, ios, rt>>

(***************************************************************************)
(* The iOS scenario: one kernel, a control thread, a real-time thread.     *)
(***************************************************************************)
IosConstruct ==
    /\ ScenarioIOS
    /\ ios.state = "None"
    /\ ios' = IosCtor
    /\ UNCHANGED <<heap, fftLive, am, mac, rt, ghost>>

IosInitialize(sampleRate, channelCount) ==
    /\ ScenarioIOS
    /\ ios.state = "Alive"
    /\ ~ios.isInitialized
    /\ \E o \in IosInitializeImpl(ios, heap, sampleRate, channelCount) :
          /\ ios' = o.ios
          /\ heap' = o.heap
          /\ ghost' = [ghost EXCEPT !.calls = o.calls, !.wasReset = FALSE,
                          !.res = Acquire(Acquire(@, "processing", o.ok), "simd", o.ok)]
    /\ UNCHANGED <<fftLive, am, mac, rt>>

IosSetBypassed(shouldBypass) ==
    /\ ScenarioIOS \/ (am.op = "none" /\ mac.state = "Initialized" /\ rt.pc = "idle")
    /\ ios.state = "Alive"
    /\ ios' = setBypassed(ios, shouldBypass)
    /\ ghost' = [ghost EXCEPT !.stored = shouldBypass]
    /\ rt' = [rt EXCEPT !.fresh = IF rt.pc = "begun" THEN @ \cup { shouldBypass } ELSE @]
    /\ UNCHANGED <<heap, fftLive, am, mac>>

\* process() of a concrete variant: sets the processing-in-progress flag, ...
IosProcessBegin(frameCount) ==
    /\ ScenarioIOS
    /\ ios.state = "Alive"
    /\ ios.isInitialized
    /\ rt.pc = "idle"
    /\ ios' = [ios EXCEPT !.isProcessing = TRUE]
    /\ rt' = [rt EXCEPT !.pc = "begun", !.fresh = { ghost.stored }, !.frames = frameCount]
    /\ ghost' = [ghost EXCEPT !.nonAtomic = Access(@, "ios", "isProcessing", "realtime")]
    /\ UNCHANGED <<heap, fftLive, am, mac>>

\* ... reads the bypass flag, ...
IosProcessReadBypass ==
    /\ ScenarioIOS
    /\ rt.pc = "begun"
    /\ rt' = [rt EXCEPT !.pc = "read", !.saw = ios.isBypassed]
    /\ ghost' = [ghost EXCEPT !.nonAtomic = Access(@, "ios", "bypass", "realtime")]
    /\ UNCHANGED <<heap, fftLive, am, mac, ios>>

\* ... passes the input through or runs the transform, ...
IosProcessRun ==
    /\ ScenarioIOS
    /\ rt.pc = "read"
    /\ LET o == IosProcessImpl(ios, heap, rt.saw, rt.frames) IN
          /\ rt' = [rt EXCEPT !.pc = "ran", !.out = o.out, !.channels = ios.channelCount]
          /\ heap' = o.heap
          /\ ghost' = [ghost EXCEPT !.wasReset = @ /\ o.heap = heap]
    /\ UNCHANGED <<fftLive, am, mac, ios>>

\* ... and clears the processing-in-progress flag when it returns
IosProcessEnd ==
    /\ ScenarioIOS
    /\ rt.pc = "ran"
    /\ ios' = [ios EXCEPT !.isProcessing = FALSE]
    /\ rt' = RtIdle
    /\ ghost' = [ghost EXCEPT !.nonAtomic = Access(@, "ios", "isProcessing", "realtime")]
    /\ UNCHANGED <<heap, fftLive, am, mac>>

\* reset(), called by the control thread while no process call is in flight
IosReset ==
    /\ ScenarioIOS
    /\ ios.state = "Alive"
    /\ ios.isInitialized
    /\ rt.pc = "idle"
    /\ LET o == IosResetImpl(ios, heap) IN
          /\ ios' = o.ios
          /\ heap' = o.heap
          /\ ghost' = [ghost EXCEPT !.wasReset = (o.heap # heap)]
    /\ UNCHANGED <<fftLive, am, mac, rt>>

IosCleanup ==
    /\ ScenarioIOS
    /\ ios.state = "Alive"
    /\ LET o == IosCleanupImpl(ios, heap, ghost.res) IN
          /\ ios' = o.ios
          /\ heap' = o.heap
          /\ ghost' = [ghost EXCEPT !.res = o.res, !.wasReset = FALSE]
    /\ UNCHANGED <<fftLive, am, mac, rt>>

IosDestroy ==
    /\ ScenarioIOS
    /\ ios.state = "Alive"
    /\ \E o \in IosDtorOutcomes : ios' = [ios EXCEPT !.state = o]
    /\ UNCHANGED <<heap, fftLive, am, mac, rt, ghost>>

(***************************************************************************)
(* Two kernels at once: next to an Initialized macOS kernel an iOS kernel  *)
(* with the same configuration is constructed, initialised and cleaned up  *)
(* on the same heap. No process call runs in this scenario.                *)
(***************************************************************************)
ScenarioPair ==
    /\ am.op = "none"
    /\ mac.state = "Initialized"
    /\ mac.sampleRate = Dbl(kDefaultSampleRate)
    /\ mac.numChannels = 2
    /\ rt.pc = "idle"

PairIosConstruct ==
    /\ ScenarioPair
    /\ ios.state = "None"
    /\ ios' = IosCtor
    /\ UNCHANGED <<heap, fftLive, am, mac, rt, ghost>>

PairIosInitialize ==
    /\ ScenarioPair
    /\ ios.state = "Alive"
    /\ ~ios.isInitialized
    /\ \E o \in IosInitializeImpl(ios, heap, mac.sampleRate, mac.numChannels) :
          /\ ios' = o.ios
          /\ heap' = o.heap
          /\ ghost' = [ghost EXCEPT !.res = Acquire(@, "simd", o.ok)]
    /\ UNCHANGED <<fftLive, am, mac, rt>>

PairIosCleanup ==
    /\ ScenarioPair
    /\ ios.state = "Alive"
    /\ LET o == IosCleanupImpl(ios, heap, ghost.res) IN
          /\ ios' = o.ios
          /\ heap' = o.heap
          /\ ghost' = [ghost EXCEPT !.res["simd"] = o.res["simd"]]
    /\ UNCHANGED <<fftLive, am, mac, rt>>

(***************************************************************************)
(* The specifications.                                                     *)
(***************************************************************************)
NextAlloc ==
    \/ \E size \in Sizes, alignment \in Alignments : CallAlignedMalloc(size, alignment)
    \/ \E ptr \in Live(heap) \cup { NULL } : CallAlignedFree(ptr)

NextMac ==
    \/ \E sampleRate \in SampleRates, channels \in ChannelCounts :
          MacConstruct(sampleRate, channels)
    \/ MacProcessBegin
    \/ MacProcessEnd
    \/ MacDestroy

NextIOS ==
    \/ IosConstruct
    \/ \E sampleRate \in SampleRates, channelCount \in ChannelCounts :
          IosInitialize(sampleRate, channelCount)
    \/ \E b \in BOOLEAN : IosSetBypassed(b)
    \/ \E frameCount \in FrameCounts : IosProcessBegin(frameCount)
    \/ IosProcessReadBypass
    \/ IosProcessRun
    \/ IosProcessEnd
    \/ IosReset
    \/ IosCleanup
    \/ IosDestroy

NextPair ==
    \/ PairIosConstruct
    \/ PairIosInitialize
    \/ PairIosCleanup

Next == NextAlloc \/ NextMac \/ NextIOS \/ NextPair

Spec == Init /\ [][Next]_vars

(***************************************************************************)
(* The claims.                                                             *)
(***************************************************************************)
\* a (sampleRate, channelCount) pair within the bounds of lines 10, 15, 16
InBounds(sampleRate, channels) ==
    /\ ~sampleRate.nan
    /\ sampleRate.v >= MIN_SAMPLE_RATE
    /\ sampleRate.v <= MAX_SAMPLE_RATE
    /\ channels >= 1
    /\ channels <= MAX_CHANNELS

\* C1: after a failed initialization of the macOS kernel nothing it acquired is
\* still allocated (no live block, no live FFT setup) and it is not Initialized.
C1_FailedInitReleasesAll ==
    mac.state = "Failed" => (Live(heap) = {} /\ ~fftLive)

\* C2: a (sampleRate, channelCount) pair outside the bounds makes initialization
\* fail before any allocator call, and leaves zero buffers allocated.
C2_OutOfBoundsRejectedBeforeAllocation ==
    (mac.state # "None" /\ ~InBounds(mac.sampleRate, mac.numChannels))
        => (mac.state = "Failed" /\ ghost.calls = 0 /\ Live(heap) = {})

\* C3: no kernel is Initialized while holding a null transform (FFT) setup: a
\* failed creation of the setup fails the initialization.
C3_InitializedHasFftSetup ==
    mac.state = "Initialized" => mac.fftSetup # NULL

\* C4: for a pair within the bounds initialization fails only if an allocation
\* fails, and every buffer of an Initialized kernel (input, output, processing,
\* temporary) starts at a multiple of the cache-line size.
C4_InitializedBuffersAligned ==
    /\ (mac.state = "Failed" /\ InBounds(mac.sampleRate, mac.numChannels))
          => mac.error \in { "runtime_error", "bad_alloc" }
    /\ mac.state = "Initialized" =>
          \A p \in { mac.inputBuffer, mac.outputBuffer, mac.processingBuffer,
                     mac.tempBuffer } : p # NULL /\ p % CACHE_LINE_SIZE = 0

\* C5: while the processing-in-progress flag is true the kernel is not torn
\* down: its buffers are still allocated.
C5_NoTeardownWhileProcessing ==
    mac.isProcessing =>
        /\ mac.state = "Initialized"
        /\ { mac.inputBuffer, mac.outputBuffer } \subseteq Live(heap)

\* C6: every access of a thread to a flag shared between the control thread and
\* the real-time thread is atomic, in both kernel variants.
C6_FlagAccessesAtomic ==
    ghost.nonAtomic = {}

\* C7: over a kernel's lifetime every resource is released exactly once: none
\* is released twice, destruction does not crash, and after destruction none
\* is still allocated.
C7_ReleasedExactlyOnce ==
    /\ \A r \in Resources : ghost.res[r] # "twice"
    /\ ios.state # "Aborted"
    /\ ios.state = "Destroyed" =>
          (Live(heap) = {} /\ \A r \in Resources : ghost.res[r] # "held")
    /\ mac.state = "Destroyed" =>
          (Live(heap) = {} /\ ~fftLive /\ \A r \in Resources : ghost.res[r] # "held")

\* C8: a non-null block returned by alignedMalloc for a power-of-two alignment
\* below the cache-line size starts at a multiple of the cache-line size.
C8_WeakAlignmentRaisedToCacheLine ==
    (/\ am.op = "alignedMalloc"
     /\ IsPow2(am.alignment)
     /\ am.alignment < CACHE_LINE_SIZE
     /\ am.ptr # NULL)
        => am.ptr % CACHE_LINE_SIZE = 0

\* C9: alignedMalloc returns null without calling the allocator for every
\* alignment that is not a power of two, 0 included; for a power of two it
\* returns null or a block at a multiple of the alignment.
C9_NonPowerOfTwoRejected ==
    am.op = "alignedMalloc" =>
        /\ ~IsPow2(am.alignment) => (am.ptr = NULL /\ am.calls = 0)
        /\ (IsPow2(am.alignment) /\ am.ptr # NULL) => am.ptr % am.alignment = 0

\* C10: the bypass value a process call reads is the one stored by the last
\* setBypassed that completed before the call began, or one stored since; and
\* setBypassed can always take its single step, whatever the real-time thread
\* is doing.
C10_BypassVisibleToNextProcess ==
    /\ rt.pc \in { "read", "ran" } => rt.saw \in rt.fresh
    /\ ios.state = "Alive" => \A b \in BOOLEAN : ENABLED IosSetBypassed(b)

\* C10 witness: setBypassed(true) completed before a process call began, no
\* other store followed, and the call has read the flag as true.
C10_Witness ==
    /\ rt.pc = "read"
    /\ rt.fresh = { TRUE }
    /\ rt.saw = TRUE
    /\ ios.isProcessing

C12_BuffersExclusivelyOwned ==
    \A a \in Instances, b \in Instances :
        a.id # b.id => a.bufs \cap b.bufs = {}

\* C12 witness: two kernels are initialised at once, each holding live buffers
C12_Witness ==
    /\ mac.state = "Initialized"
    /\ ios.state = "Alive"
    /\ ios.isInitialized
    /\ Cardinality(MacBufs(mac)) = 4
    /\ Cardinality(IosBufs(ios)) = 2
    /\ MacBufs(mac) \cup IosBufs(ios) \subseteq Live(heap)

\* C13: a process call that ran with the bypass flag set has copied the
\* frameCount * channelCount input samples to the output, written nothing
\* beyond them, and not run the transform.
C13_BypassCopiesInput ==
    (rt.pc = "ran" /\ rt.saw) =>
        /\ rt.frames \in kMinBufferSize..kMaxFramesPerSlice
        /\ rt.out.copied = rt.frames * rt.channels
        /\ rt.out.written = rt.frames * rt.channels
        /\ ~rt.out.transform

\* C13 witness: a bypassed call of kMinBufferSize frames on a stereo kernel
C13_Witness ==
    /\ rt.pc = "ran"
    /\ rt.saw
    /\ rt.frames = kMinBufferSize
    /\ rt.channels = 2
    /\ ios.isInitialized
    /\ rt.out.copied = 2 * kMinBufferSize

\* C14: a reset() step changes no field of the kernel (bypass flag, initialized
\* state, channel count, sample rate, buffer addresses, capacity) and no block's
\* identity; the only thing it changes is the contents of the two processing
\* buffers, which are all zero afterwards.
C14_ResetOnlyZeroesBuffers ==
    [][IosReset =>
          /\ ios' = ios
          /\ \A a \in Addr :
                /\ heap'[a].kind = heap[a].kind
                /\ heap'[a].size = heap[a].size
                /\ a \notin { ios.processingBuffer, ios.simdAlignedBuffer }
                       => heap'[a] = heap[a]
          /\ heap'[ios.processingBuffer].zero
          /\ heap'[ios.simdAlignedBuffer].zero]_vars

\* C14 witness: reset() has zeroed buffers that a process call had written, on
\* a kernel whose bypass flag is set
C14_Witness ==
    /\ ghost.wasReset
    /\ ios.isInitialized
    /\ ios.isBypassed
    /\ heap[ios.processingBuffer].zero
    /\ heap[ios.simdAlignedBuffer].zero

\* C15: the order n given to the transform factory at initialization satisfies
\* 2^n = MAX_BUFFER_SIZE, the maximum number of frames of a slice.
C15_FftSizedToMaxSlice ==
    ghost.log2n # 0 => 2 ^ ghost.log2n = MAX_BUFFER_SIZE

\* C16: once an iOS kernel has been destroyed through ~DSPKernel, the concrete
\* variant's cleanup has run: destruction completed, the kernel is no longer
\* initialized and nothing it acquired in initialize is still allocated.
C16_DestructorRunsConcreteCleanup ==
    ios.state \in { "Destroyed", "Aborted" } =>
        /\ ios.state = "Destroyed"
        /\ ~ios.isInitialized
        /\ ghost.res["processing"] # "held" /\ ghost.res["simd"] # "held"
        /\ Live(heap) = {}

\* C17: a non-null block returned by alignedMalloc is all zero, and the input,
\* output, processing and temporary buffers of a kernel whose initialization
\* succeeded are all zero.
C17_BuffersZeroFilled ==
    /\ (am.op = "alignedMalloc" /\ am.ptr # NULL) => heap[am.ptr].zero
    /\ (mac.state = "Initialized" /\ ios.state = "None") =>
          \A p \in { mac.inputBuffer, mac.outputBuffer, mac.processingBuffer,
                     mac.tempBuffer } : p # NULL /\ heap[p].zero

\* C17 witness: an Initialized macOS kernel with its four buffers allocated
\* (the standalone call: a block returned by alignedMalloc).
C17_Witness ==
    /\ mac.state = "Initialized"
    /\ Cardinality({ mac.inputBuffer, mac.outputBuffer, mac.processingBuffer,
                     mac.tempBuffer } \cap Live(heap)) = 4

====
